---- MODULE Spec2Model ----
(***************************************************************************)
(* Model of src/switcher.py: the SwitcherWindow controller of the two-     *)
(* camera video switcher.  The window object is the record `self`; every   *)
(* UI handler (on_start, on_stop, on_close, switch_to, on_refresh, a       *)
(* dropdown selection, the preview check box) is one action.  The          *)
(* GStreamer framework is the environment: each call into it that can fail *)
(* (an element factory returning None, a link returning False, a pad       *)
(* request returning None, set_state returning FAILURE, os.access) is an   *)
(* input of the handler that makes the call.                               *)
(***************************************************************************)
EXTENDS Integers, Sequences, FiniteSets, TLC

VARIABLES self, closed, ev, file

vars == <<self, closed, ev, file>>

\* Number of /dev/video* nodes the host can show (device i is /dev/video<i>).
NumDevices == 3

Devices == 1..NumDevices

\* Lines 50-53: what glob finds.  Device names are opaque and every refresh
\* resets the three dropdowns, so the nodes present are taken to be
\* /dev/video1 .. /dev/video<n>.
Enumerations == {1..n : n \in 0..NumDevices}

\* _get_selected returns None when the dropdown has no selected item.
NoSel == 0

\* Python None for a reference to a framework object: the empty tuple; a
\* reference to object x is <<x>>.
None == <<>>

Some(x) == <<x>>

\* Python None for a pad or a sink, which are named by strings.
NoneS == "None"

\* The sinks tried for the preview, in the order of lines 348-352.
PreviewSinks == <<"gtk4paintablesink", "glimagesink", "autovideosink">>

PreviewSinkSet == {PreviewSinks[i] : i \in 1..Len(PreviewSinks)}

\* The sink factories that give a sink, as far as lines 348-352 can tell:
\* the factories after the first one that gives a sink are never called, so
\* they are taken to give one too.
SinkInstallations ==
  {{PreviewSinks[j] : j \in i..Len(PreviewSinks)} : i \in 1..(Len(PreviewSinks) + 1)}

\* Element names of one input branch, in chain order (line 384).
BranchElems(name) ==
  << "src_" \o name, "conv_" \o name, "scale_" \o name,
     "rate_" \o name, "caps_" \o name, "q_" \o name >>

\* Gst.ElementFactory.make calls whose None result the code can meet.
FactoryFaults ==
  {"isel", "outconvert", "outsink", "tee", "qout", "qprev", "prevconvert"}
    \cup {BranchElems("cam1")[i] : i \in 1..6}
    \cup {BranchElems("cam2")[i] : i \in 1..6}

\* Link, pad-request and pad-link calls that can report failure.
LinkFaults ==
  {"link_cam1", "reqpad_cam1", "padlink_cam1",
   "link_cam2", "reqpad_cam2", "padlink_cam2",
   "link_isel_tee", "teereq_prev", "teelink_prev",
   "teereq_out", "teelink_out", "link_prev", "link_out"}

\* The framework call that fails during one on_start ("none": no call
\* fails).  The handler stops at the first failure that takes effect, so a
\* run with several failing calls ends in the state of the run in which
\* only that first one fails.
Faults == {"none", "playing"} \cup FactoryFaults \cup LinkFaults

\* Lines 368-370, 445-447, 452-454: the preview queue, converter, tee pad
\* and chain are made only when the preview is enabled.
PreviewFaults == {"qprev", "prevconvert", "teereq_prev", "teelink_prev", "link_prev"}

FaultsFor(preview_enabled) ==
  IF preview_enabled THEN Faults ELSE Faults \ PreviewFaults

\* ---------------------------------------------------------------- messages
MsgIncomplete == "IncompleteSelection"

MsgCollision == "OutputCollidesWithInput"

MsgDuplicate == "DuplicateInputs"

MsgNotWritable == "OutputNotWritable"

MsgNoSelector == "ElementUnavailable(input-selector)"

MsgNoPreviewSink == "NoPreviewSinkAvailable"

MsgNoOutSink == "OutputSinkUnavailable(v4l2sink)"

MsgNoSrc == "CaptureDeviceUnavailable(v4l2src)"

MsgLinkInputs == "LinkFailure(inputs to selector)"

MsgLinkSelTee == "LinkFailure(selector to tee)"

MsgTeePreview == "LinkFailure(tee pad for preview)"

MsgTeeOut == "LinkFailure(tee pad for output)"

MsgLinkPreview == "LinkFailure(preview branch)"

MsgLinkOut == "LinkFailure(output branch)"

MsgStartFailed == "PipelineStartFailure"

ValidationMsgs == {MsgIncomplete, MsgCollision, MsgDuplicate, MsgNotWritable}

BuildMsgs ==
  {MsgNoSelector, MsgNoPreviewSink, MsgNoOutSink, MsgNoSrc, MsgLinkInputs,
   MsgLinkSelTee, MsgTeePreview, MsgTeeOut, MsgLinkPreview, MsgLinkOut}

\* ------------------------------------------------------------- the graph
\* Links a finished graph holds: each branch chain, each branch's selector
\* pad, selector to tee, and per consumer the tee pad and the chain to the
\* sink.
InputLinks == {"chain_cam1", "pad_cam1", "chain_cam2", "pad_cam2"}

OutputLinks == {"isel_tee", "tee_out", "chain_out"}

PreviewLinks == {"tee_prev", "chain_prev"}

\* Gst.Pipeline.new("switcher"): an empty pipeline in the NULL state.
NewPipeline == [state |-> "NULL", preview |-> FALSE, links |-> {}]

\* A fresh input-selector: no request pads, no active pad.
NewSelector == [active |-> NoneS, npads |-> 0]

\* request_pad_simple("sink_%u") names the pads in request order.
SinkPad(n) == IF n = 0 THEN "sink_0" ELSE IF n = 1 THEN "sink_1" ELSE "sink_n"

\* ------------------------------------------------------- build_pipeline
\* The run of build_pipeline is a frame b = [self, ret, err]: ret is "run"
\* while the function is executing, and "ok" (returned True, None), "fail"
\* (returned False, err) or "raise" (left by an exception) once it ended.
Executing(b) == b.ret = "run"

ReturnFalse(b, msg) == [b EXCEPT !.ret = "fail", !.err = msg]

Raise(b) == [b EXCEPT !.ret = "raise"]

\* Line 335: self.pipeline = Gst.Pipeline.new("switcher").
BuildNewPipeline(s) ==
  [self |-> [s EXCEPT !.pipeline = Some(NewPipeline)], ret |-> "run", err |-> ""]

\* Lines 337-339: the selector, checked for None.
BuildSelector(b, fault) ==
  IF ~Executing(b) THEN b
  ELSE IF fault = "isel"
    THEN ReturnFalse([b EXCEPT !.self.input_selector = None], MsgNoSelector)
    ELSE [b EXCEPT !.self.input_selector = Some(NewSelector)]

\* A fallback that prefers the later sinks of the list.
RECURSIVE LastAvailable(_, _)
LastAvailable(avail, i) ==
  IF i > Len(PreviewSinks) THEN NoneS
  ELSE IF LastAvailable(avail, i + 1) # NoneS THEN LastAvailable(avail, i + 1)
  ELSE IF PreviewSinks[i] \in avail THEN PreviewSinks[i]
  ELSE NoneS

\* Lines 348-352: the first available sink in the fallback order, or None.
RECURSIVE FirstAvailable(_, _)
FirstAvailable(avail, i) ==
  IF i > Len(PreviewSinks) THEN NoneS
  ELSE IF PreviewSinks[i] \in avail THEN PreviewSinks[i]
  ELSE FirstAvailable(avail, i + 1)

\* Lines 348-356: self.preview_sink holds what the factories gave; None
\* ends the build.
PreviewSinkMade(b, sink) ==
  IF sink = NoneS
    THEN ReturnFalse([b EXCEPT !.self.preview_sink = sink], MsgNoPreviewSink)
    ELSE [b EXCEPT !.self.preview_sink = sink]

\* Lines 341-356: the preview sink, only when the preview box is checked.
BuildPreviewSink(b, avail) ==
  IF ~Executing(b) THEN b
  ELSE IF ~b.self.chk_preview
    THEN [b EXCEPT !.self.preview_sink = NoneS]
    ELSE PreviewSinkMade(b, FirstAvailable(avail, 1))

\* Lines 359-363: out_convert is not checked, out_sink is.
BuildOutputSink(b, fault) ==
  IF ~Executing(b) THEN b
  ELSE IF fault = "outsink" THEN ReturnFalse(b, MsgNoOutSink)
  ELSE b

\* Lines 373-384, one call: "RuntimeError" when v4l2src is None (line 376),
\* "AttributeError" when capsfilter is None (caps.set_property on None,
\* line 382), else "ok"; the other four elements are not checked.
make_input_branch(name, fault) ==
  IF fault = "src_" \o name THEN "RuntimeError"
  ELSE IF fault = "caps_" \o name THEN "AttributeError"
  ELSE "ok"

\* Lines 389-390: r is how the two calls ended, "ok" or the first exception.
BranchesMade(b, r) ==
  IF r = "RuntimeError" THEN ReturnFalse(b, MsgNoSrc)
  ELSE IF r = "AttributeError" THEN Raise(b)
  ELSE b

\* Lines 386-390: both branches; only RuntimeError is caught.
BuildBranches(b, fault) ==
  IF ~Executing(b) THEN b
  ELSE BranchesMade(b, IF make_input_branch("cam1", fault) # "ok"
                            THEN make_input_branch("cam1", fault)
                            ELSE make_input_branch("cam2", fault))

\* Lines 393-398: the elements that are not None are added to the
\* pipeline, the preview branch among them when the preview is enabled.
BuildAddElements(b) ==
  IF ~Executing(b) THEN b
  ELSE [b EXCEPT !.self.pipeline =
          Some([b.self.pipeline[1] EXCEPT !.preview = b.self.chk_preview])]

\* Lines 401-405: Gst.Element.link over consecutive elements.  A None
\* element makes the binding raise TypeError; a refused link returns False.
link_chain(elems, fault, linkfault) ==
  IF \E i \in 1..Len(elems) : elems[i] = fault THEN "raise"
  ELSE IF fault = linkfault THEN "fail"
  ELSE "ok"

AddLinks(b, ls) ==
  [b EXCEPT !.self.pipeline =
     Some([b.self.pipeline[1] EXCEPT !.links = @ \cup ls])]

\* A frame with the field pad added: what link_branch returns.
WithPad(b, pad) == [self |-> b.self, ret |-> b.ret, err |-> b.err, pad |-> pad]

Frame(x) == [self |-> x.self, ret |-> x.ret, err |-> x.err]

\* Lines 413-421: a fresh selector pad is requested and linked to the
\* branch's queue; sel is the selector before the request.
RequestAndLinkPad(b, sel, name, fault) ==
  IF fault = "reqpad_" \o name THEN WithPad(b, NoneS)
  ELSE IF fault = "padlink_" \o name
    THEN WithPad([b EXCEPT !.self.input_selector = Some([sel EXCEPT !.npads = @ + 1])],
                 NoneS)
    ELSE WithPad(
           AddLinks([b EXCEPT !.self.input_selector = Some([sel EXCEPT !.npads = @ + 1])],
                    {"pad_" \o name}),
           SinkPad(sel.npads))

\* Lines 408-421: link one branch and attach it to a fresh selector pad; r
\* is what link_chain gave for the branch.  The result is the frame with
\* field pad added: the pad, or None.
LinkBranchAfterChain(b, r, name, fault) ==
  IF r = "raise" THEN WithPad(Raise(b), NoneS)
  ELSE IF r = "fail" THEN WithPad(b, NoneS)
  ELSE RequestAndLinkPad(AddLinks(b, {"chain_" \o name}),
                         b.self.input_selector[1], name, fault)

link_branch(b, name, fault) ==
  LinkBranchAfterChain(
    b, link_chain(BranchElems(name), fault, "link_" \o name), name, fault)

\* Line 426 after line 424: x2 is what link_branch(br2) gave.
InputsLinked(x2) ==
  IF x2.ret = "raise" THEN Frame(x2)
  ELSE IF x2.self.pad_cam1 = NoneS \/ x2.pad = NoneS
    THEN ReturnFalse([Frame(x2) EXCEPT !.self.pad_cam2 = x2.pad], MsgLinkInputs)
    ELSE [Frame(x2) EXCEPT !.self.pad_cam2 = x2.pad]

\* Line 424 after line 423: x1 is what link_branch(br1) gave.
SecondBranch(x1, fault) ==
  IF x1.ret = "raise" THEN Frame(x1)
  ELSE InputsLinked(
         link_branch([Frame(x1) EXCEPT !.self.pad_cam1 = x1.pad], "cam2", fault))

\* A build that attaches the branches to the selector in reverse order:
\* camB's branch gets the first pad.
BuildLinkInputsReversed(b, fault) ==
  IF ~Executing(b) THEN b
  ELSE [SecondBranch(link_branch(b, "cam1", fault), fault) EXCEPT
          !.self.pad_cam1 = SecondBranch(link_branch(b, "cam1", fault), fault).self.pad_cam2,
          !.self.pad_cam2 = SecondBranch(link_branch(b, "cam1", fault), fault).self.pad_cam1]

\* Lines 423-426: both branches are linked before either pad is tested.
BuildLinkInputs(b, fault) ==
  IF ~Executing(b) THEN b
  ELSE SecondBranch(link_branch(b, "cam1", fault), fault)

\* The frame after a linking call that gave r: the exception goes on, False
\* makes build_pipeline return (False, msg), success adds the link.
Linked(b, r, msg, link) ==
  IF r = "raise" THEN Raise(b)
  ELSE IF r = "fail" THEN ReturnFalse(b, msg)
  ELSE AddLinks(b, {link})

\* Lines 429-430: selector -> tee; tee is not checked for None.
BuildLinkSelectorTee(b, fault) ==
  IF ~Executing(b) THEN b
  ELSE Linked(b, link_chain(<<"isel", "tee">>, fault, "link_isel_tee"),
              MsgLinkSelTee, "isel_tee")

\* Lines 433-443: a tee request pad linked to the queue's sink pad.  A None
\* queue raises AttributeError at queue_el.get_static_pad (line 440).
tee_link(queue_el, fault, reqfault, linkfault) ==
  IF fault = reqfault THEN "fail"
  ELSE IF fault = queue_el THEN "raise"
  ELSE IF fault = linkfault THEN "fail"
  ELSE "ok"

\* Lines 445-447: the tee pad of the preview, when enabled.
BuildTeePreview(b, fault) ==
  IF ~Executing(b) \/ ~b.self.chk_preview THEN b
  ELSE Linked(b, tee_link("qprev", fault, "teereq_prev", "teelink_prev"),
              MsgTeePreview, "tee_prev")

\* Lines 448-449: the tee pad of the output.
BuildTeeOutput(b, fault) ==
  IF ~Executing(b) THEN b
  ELSE Linked(b, tee_link("qout", fault, "teereq_out", "teelink_out"),
              MsgTeeOut, "tee_out")

\* Lines 452-454: queue -> videoconvert -> preview sink, when enabled.
BuildChainPreview(b, fault) ==
  IF ~Executing(b) \/ ~b.self.chk_preview THEN b
  ELSE Linked(b, link_chain(<<"qprev", "prevconvert", "preview">>, fault, "link_prev"),
              MsgLinkPreview, "chain_prev")

\* Lines 455-456: queue -> videoconvert -> v4l2sink.
BuildChainOutput(b, fault) ==
  IF ~Executing(b) THEN b
  ELSE Linked(b, link_chain(<<"qout", "outconvert", "outsink">>, fault, "link_out"),
              MsgLinkOut, "chain_out")

\* A build whose last step activates pad_cam1 but leaves active_cam as the
\* session before left it.
BuildSetActiveKeepsCam(b) ==
  IF ~Executing(b) THEN b
  ELSE [b EXCEPT !.self.input_selector =
                   Some([b.self.input_selector[1] EXCEPT !.active = b.self.pad_cam1]),
                 !.ret = "ok"]

\* Lines 476-479: branch A is made active and the build returns True.
BuildSetActive(b) ==
  IF ~Executing(b) THEN b
  ELSE [b EXCEPT !.self.input_selector =
                   Some([b.self.input_selector[1] EXCEPT !.active = b.self.pad_cam1]),
                 !.self.active_cam = 1,
                 !.ret = "ok"]

\* Lines 334-479.  (Lines 458-474 only fill the preview box, inside a
\* try/except that swallows every error.)
build_pipeline(s, avail, fault) ==
  BuildSetActive(
   BuildChainOutput(
    BuildChainPreview(
     BuildTeeOutput(
      BuildTeePreview(
       BuildLinkSelectorTee(
        BuildLinkInputs(
         BuildAddElements(
          BuildBranches(
           BuildOutputSink(
            BuildPreviewSink(
             BuildSelector(BuildNewPipeline(s), fault),
             avail),
            fault),
           fault)),
         fault),
        fault),
       fault),
      fault),
     fault),
    fault))

\* ------------------------------------------------------------ handlers
\* A teardown that also clears active_cam.
teardown_pipelineClearsCam(s) ==
  IF s.pipeline # None
    THEN [s EXCEPT !.pipeline = None, !.input_selector = None,
                   !.pad_cam1 = NoneS, !.pad_cam2 = NoneS, !.active_cam = 0]
    ELSE s

\* Lines 481-487.
teardown_pipeline(s) ==
  IF s.pipeline # None
    THEN [s EXCEPT !.pipeline = None, !.input_selector = None,
                   !.pad_cam1 = NoneS, !.pad_cam2 = NoneS]
    ELSE s

\* Line 483: the state teardown_pipeline puts the pipeline in before it
\* drops the reference; Kept when there is no pipeline to tear down.
Kept == "kept"

teardown_state(s) == IF s.pipeline # None THEN "NULL" ELSE Kept

\* Lines 529-531.
set_all_cam_status(s, state) == [s EXCEPT !.cam_status = <<state, state>>]

\* A validator that looks for equal inputs before it looks for a collision.
ValidateDuplicateFirst(cam1, cam2, out, writable) ==
  IF ~(cam1 # NoSel /\ cam2 # NoSel /\ out # NoSel) THEN MsgIncomplete
  ELSE IF cam1 = cam2 THEN MsgDuplicate
  ELSE IF cam1 = out \/ cam2 = out THEN MsgCollision
  ELSE IF ~writable THEN MsgNotWritable
  ELSE ""

\* Lines 218-229: the message of the first check that fails, "" when all
\* pass.  writable is the answer of os.access(out, os.W_OK).
Validate(cam1, cam2, out, writable) ==
  IF ~(cam1 # NoSel /\ cam2 # NoSel /\ out # NoSel) THEN MsgIncomplete
  ELSE IF cam1 = out \/ cam2 = out THEN MsgCollision
  ELSE IF cam1 = cam2 THEN MsgDuplicate
  ELSE IF ~writable THEN MsgNotWritable
  ELSE ""

\* A failure path that leaves the Start button insensitive.
StartBuildFailedLocksStart(s) ==
  [s EXCEPT !.pipeline = None, !.input_selector = None,
            !.pad_cam1 = NoneS, !.pad_cam2 = NoneS,
            !.cam_status = <<"error", "error">>, !.btn_start = FALSE]

\* Lines 234-235: the window after a build that returned False.
StartBuildFailed(s) == set_all_cam_status(teardown_pipeline(s), "error")

\* A PLAYING failure after which the graph is kept.
StartPlayingFailedKeepsGraph(s) == set_all_cam_status(s, "error")

\* Lines 241-242: the window after set_state(PLAYING) returned FAILURE.
StartPlayingFailed(s) == set_all_cam_status(teardown_pipeline(s), "error")

\* Lines 238, 245-250: the pipeline plays and the controls follow.
StartSucceeded(s) ==
  [set_all_cam_status(s, "ok") EXCEPT
     !.pipeline = Some([s.pipeline[1] EXCEPT !.state = "PLAYING"]),
     !.btn_start = FALSE, !.btn_stop = TRUE,
     !.btn_cam1 = TRUE, !.btn_cam2 = TRUE]

\* Lines 265-268: _error(msg) puts msg on the status label.  Nothing reads
\* the label, so a handler's call of _error is its output: the field msg of
\* its result, NoMsg when the handler ends without calling _error.
NoMsg == "-"

\* Lines 231-250: v is the validation message and b the frame build_pipeline
\* ended in (built only when v is empty).
StartAfterValidation(s, v, b, fault) ==
  IF v # "" THEN [self |-> s, out |-> "Invalid", msg |-> v, released |-> Kept]
  ELSE IF b.ret = "fail"
    THEN [self |-> StartBuildFailed(b.self), out |-> "BuildFailed",
          msg |-> IF b.err # "" THEN b.err ELSE "Failed to create pipeline",
          released |-> teardown_state(b.self)]
  ELSE IF b.ret = "raise"
    THEN [self |-> b.self, out |-> "BuildRaised", msg |-> NoMsg, released |-> Kept]
  ELSE IF fault = "playing"
    THEN [self |-> StartPlayingFailed(b.self), out |-> "PlayingFailed",
          msg |-> MsgStartFailed, released |-> teardown_state(b.self)]
  ELSE [self |-> StartSucceeded(b.self), out |-> "Started", msg |-> "",
        released |-> Kept]

\* Lines 213-250.  The result is [self, out, msg, released]: the window
\* after the handler, how the handler ended ("Invalid", "BuildFailed",
\* "BuildRaised": an exception left build_pipeline and the handler, the
\* toolkit logs it and the window stays as it was at that line,
\* "PlayingFailed" or "Started"), the status message, and the state in
\* which the handler's teardown left the pipeline it dropped.
on_start(s, writable, avail, fault) ==
  StartAfterValidation(
    s, Validate(s.cmb_cam1, s.cmb_cam2, s.cmb_out, writable),
    build_pipeline(s, avail, fault), fault)

\* A stop that forgets to make the Start button sensitive again.
on_stopKeepsStartOff(s) ==
  [set_all_cam_status(teardown_pipeline(s), "idle") EXCEPT
     !.btn_stop = FALSE, !.btn_cam1 = FALSE, !.btn_cam2 = FALSE]

\* Lines 252-258.
on_stop(s) ==
  [set_all_cam_status(teardown_pipeline(s), "idle") EXCEPT
     !.btn_start = TRUE, !.btn_stop = FALSE,
     !.btn_cam1 = FALSE, !.btn_cam2 = FALSE]

\* Lines 260-263.
on_close(s) == set_all_cam_status(teardown_pipeline(s), "idle")

\* Lines 513-527.
set_cam_status(s, cam_idx, state) ==
  [s EXCEPT !.cam_status[IF cam_idx = 1 THEN 1 ELSE 2] = state]

\* A switch that repoints the selector and does not record the branch.
SwitchToPadForgetsCam(s, cam_idx, pad) ==
  IF pad = NoneS THEN set_cam_status(s, cam_idx, "error")
  ELSE [set_cam_status(s, cam_idx, "ok") EXCEPT
          !.input_selector = Some([s.input_selector[1] EXCEPT !.active = pad])]

\* A switch that pauses the pipeline while it repoints the selector.
SwitchToPadPauses(s, cam_idx, pad) ==
  IF pad = NoneS THEN set_cam_status(s, cam_idx, "error")
  ELSE [set_cam_status(s, cam_idx, "ok") EXCEPT
          !.pipeline = Some([s.pipeline[1] EXCEPT !.state = "PAUSED"]),
          !.input_selector = Some([s.input_selector[1] EXCEPT !.active = pad]),
          !.active_cam = cam_idx]

\* A switch that toggles the active branch instead of setting it.
SwitchToPadToggles(s, cam_idx, pad) ==
  [s EXCEPT !.input_selector =
              Some([s.input_selector[1] EXCEPT
                      !.active = IF s.active_cam = 1 THEN s.pad_cam2 ELSE s.pad_cam1]),
            !.active_cam = 3 - s.active_cam]

\* Lines 493-498: pad is the selector pad of the target branch.
SwitchToPad(s, cam_idx, pad) ==
  IF pad = NoneS THEN set_cam_status(s, cam_idx, "error")
  ELSE [set_cam_status(s, cam_idx, "ok") EXCEPT
          !.input_selector = Some([s.input_selector[1] EXCEPT !.active = pad]),
          !.active_cam = cam_idx]

\* Lines 489-499.
switch_to(s, cam_idx) ==
  IF s.pipeline = None \/ s.input_selector = None THEN s
  ELSE SwitchToPad(s, cam_idx, IF cam_idx = 1 THEN s.pad_cam1 ELSE s.pad_cam2)

\* Lines 50-53 and 205-211: the dropdowns get the fresh device list as their
\* model; a dropdown shows the first item of a non-empty model and nothing
\* when the model is empty.
FirstDevice(devs) ==
  IF devs = {} THEN NoSel ELSE CHOOSE d \in devs : \A e \in devs : d <= e

on_refresh(s, devs) ==
  [s EXCEPT !.devs = devs,
            !.cmb_cam1 = FirstDevice(devs),
            !.cmb_cam2 = FirstDevice(devs),
            !.cmb_out = FirstDevice(devs)]

\* ------------------------------------------------------ the settings file
\* A device named in the settings file of an earlier session that no
\* enumeration of this session shows.
GoneDevice == NumDevices + 1

SavedDevices == Devices \cup {GoneDevice}

\* Lines 47-48: CONFIG_FILE is absent, or its text is not a JSON object, or
\* it is a JSON object: cam1, cam2 and out a device or null (NoSel),
\* preview and autoload "true", "false" or no such key ("missing").
SettingsFile(kind, cam1, cam2, out, preview, autoload) ==
  [kind |-> kind, cam1 |-> cam1, cam2 |-> cam2, out |-> out,
   preview |-> preview, autoload |-> autoload]

AbsentFile == SettingsFile("absent", NoSel, NoSel, NoSel, "missing", "missing")

CorruptFile == SettingsFile("corrupt", NoSel, NoSel, NoSel, "missing", "missing")

\* json.dump of a Python bool.
JsonBool(b) == IF b THEN "true" ELSE "false"

\* Lines 326-327: bool(data.get(key, default)).
BoolOf(value, default) == IF value = "missing" THEN default ELSE value = "true"

MsgSaved == "Defaults saved."

MsgCleared == "Defaults cleared."

MsgSaveFailed == "Failed to save defaults"

MsgClearFailed == "Failed to clear defaults"

MsgLoadFailed == "Failed to load defaults"

\* A save whose data swaps the two cameras.
SavedDataSwapsCams(s) ==
  SettingsFile("json", s.cmb_cam2, s.cmb_cam1, s.cmb_out,
               JsonBool(s.chk_preview), JsonBool(s.chk_autoload))

\* Lines 273-279: the object on_save_defaults writes.
SavedData(s) ==
  SettingsFile("json", s.cmb_cam1, s.cmb_cam2, s.cmb_out,
               JsonBool(s.chk_preview), JsonBool(s.chk_autoload))

\* Lines 272-286.  io is what the file system does: "ok", "open_fails"
\* (mkdir or open raises, the file stays as it was) or "write_fails" (the
\* write raises after open truncated the file).  The result is the window,
\* the file, "ok" or "fail", and the status message.
on_save_defaults(s, f, io) ==
  IF io = "ok"
    THEN [self |-> s, file |-> SavedData(s), out |-> "ok", msg |-> MsgSaved]
  ELSE IF io = "open_fails"
    THEN [self |-> s, file |-> f, out |-> "fail", msg |-> MsgSaveFailed]
  ELSE [self |-> s, file |-> CorruptFile, out |-> "fail", msg |-> MsgSaveFailed]

\* A clear that also stops the session.
on_clear_defaultsStops(s, f, io) ==
  [self |-> on_stop(s), file |-> AbsentFile, out |-> "ok", msg |-> MsgCleared]

\* Lines 288-294.  io is "ok" or "unlink_fails"; nothing is unlinked when
\* the file does not exist.
on_clear_defaults(s, f, io) ==
  IF io = "ok" \/ f.kind = "absent"
    THEN [self |-> s, file |-> AbsentFile, out |-> "ok", msg |-> MsgCleared]
    ELSE [self |-> s, file |-> f, out |-> "fail", msg |-> MsgClearFailed]

\* Lines 296-313: the dropdown cmb shows value when its model has it; a
\* null value and a value the model does not have leave the dropdown as
\* it was.
select_value(s, cmb, value) ==
  IF value = NoSel THEN s
  ELSE IF value \in s.devs THEN [s EXCEPT ![cmb] = value]
  ELSE s

\* Lines 323-327: the three selections and the two flags are set from the
\* object read.
LoadApplied(s, f) ==
  [select_value(select_value(select_value(s, "cmb_cam1", f.cam1),
                             "cmb_cam2", f.cam2),
                "cmb_out", f.out)
     EXCEPT !.chk_preview = BoolOf(f.preview, TRUE),
            !.chk_autoload = BoolOf(f.autoload, FALSE)]

\* Lines 318-332 on the window s as on_refresh left it.  io is "ok" or
\* "read_fails".  The test of line 328 comes after lines 323-327 and only
\* returns.
LoadAfterRefresh(s, f, autoload, io) ==
  IF f.kind = "absent" THEN [self |-> s, out |-> "none", msg |-> NoMsg]
  ELSE IF io = "read_fails" \/ f.kind = "corrupt"
    THEN [self |-> s, out |-> "fail", msg |-> MsgLoadFailed]
  ELSE IF autoload /\ ~BoolOf(f.autoload, FALSE)
    THEN [self |-> LoadApplied(s, f), out |-> "ok", msg |-> NoMsg]
  ELSE [self |-> LoadApplied(s, f), out |-> "ok", msg |-> NoMsg]

\* Lines 315-332; devs is what list_video_devices finds.
load_defaults(s, f, devs, autoload, io) ==
  LoadAfterRefresh(on_refresh(s, devs), f, autoload, io)

\* ------------------------------------------------------------- the state
\* Lines 67-72, 152-158, 165-167, 175-178: the window as __init__ makes
\* it, before the device list is loaded.
NewWindow ==
  [pipeline |-> None, input_selector |-> None, preview_sink |-> NoneS,
   pad_cam1 |-> NoneS, pad_cam2 |-> NoneS, active_cam |-> 1,
   devs |-> {}, cmb_cam1 |-> NoSel, cmb_cam2 |-> NoSel, cmb_out |-> NoSel,
   chk_preview |-> FALSE, chk_autoload |-> FALSE,
   btn_start |-> TRUE, btn_stop |-> FALSE, btn_cam1 |-> FALSE, btn_cam2 |-> FALSE,
   cam_status |-> <<"idle", "idle">>]

\* The last UI event: the handler, its argument, what it read from the
\* environment (os.access, and the kind of framework call that failed),
\* how it ended, the status message it gave _error, the value of
\* active_cam the handler overwrote (0 when it did not assign active_cam),
\* whether it is a retry: a start that reached build_pipeline right
\* after a start that failed in the build or in the PLAYING transition,
\* and the state in which the handler's teardown left the pipeline it
\* dropped (Kept when it tore nothing down).
Event(op, arg, writable, cause, out, msg, pre, retry) ==
  [op |-> op, arg |-> arg, writable |-> writable,
   cause |-> cause, out |-> out, msg |-> msg, pre |-> pre, retry |-> retry,
   released |-> Kept]

PlainEvent(op) == Event(op, 0, FALSE, "unused", "", NoMsg, 0, FALSE)

FailedOuts == {"BuildFailed", "BuildRaised", "PlayingFailed"}

\* The kind of the failing call: "capture" (the v4l2src factory), "factory"
\* (another element factory), "nosink" (the preview is enabled and no sink
\* factory gives a sink), "link", "playing", or "none" when no call fails.
Cause(s, avail, fault) ==
  IF s.chk_preview /\ avail = {} /\ fault # "isel" THEN "nosink"
  ELSE IF fault \in {"src_cam1", "src_cam2"} THEN "capture"
  ELSE IF fault \in FactoryFaults THEN "factory"
  ELSE IF fault \in LinkFaults THEN "link"
  ELSE fault

\* Line 187: __init__ ends with load_defaults, whose first act is on_refresh
\* over the devices present at that time (lines 316-319, no settings file).
Init ==
  /\ \E devs \in Enumerations : self = on_refresh(NewWindow, devs)
  /\ closed = FALSE
  /\ ev = PlainEvent("init")
  /\ file = AbsentFile

\* Lines 218-226: the checks that do not consult the file system.
SelectionMsg(cam1, cam2, out) == Validate(cam1, cam2, out, TRUE)

\* The step of the window and of the event record that on_start's result r
\* makes.
Started(r, writable, cause) ==
  /\ self' = r.self
  /\ ev' = [Event("start", 0, writable, cause, r.out, r.msg,
                  IF r.out = "Started" THEN self.active_cam ELSE 0,
                  r.out # "Invalid" /\ ev.op = "start" /\ ev.out \in FailedOuts)
              EXCEPT !.released = r.released]

\* Line 181: a click on Start, possible while the button is sensitive.
\* os.access is consulted only when the first three checks pass, the
\* framework only when validation passes, the sink factories only when the
\* preview is enabled.
OnStart ==
  /\ ~closed
  /\ self.btn_start
  /\ \E writable \in (IF SelectionMsg(self.cmb_cam1, self.cmb_cam2, self.cmb_out) # ""
                        THEN {FALSE} ELSE BOOLEAN) :
       IF Validate(self.cmb_cam1, self.cmb_cam2, self.cmb_out, writable) # ""
         THEN Started(on_start(self, writable, {}, "none"), writable, "unused")
         ELSE \E fault \in FaultsFor(self.chk_preview) :
              \E avail \in (IF self.chk_preview THEN SinkInstallations ELSE {{}}) :
                Started(on_start(self, writable, avail, fault), writable,
                        Cause(self, avail, fault))
  /\ UNCHANGED <<closed, file>>

\* Line 182: a click on Stop.
OnStop ==
  /\ ~closed
  /\ self.btn_stop
  /\ self' = on_stop(self)
  /\ ev' = [PlainEvent("stop") EXCEPT !.released = teardown_state(self)]
  /\ UNCHANGED <<closed, file>>

\* Line 189: the close request; the window is destroyed afterwards.
OnClose ==
  /\ ~closed
  /\ self' = on_close(self)
  /\ closed' = TRUE
  /\ ev' = [PlainEvent("close") EXCEPT !.released = teardown_state(self)]
  /\ UNCHANGED file

\* Lines 183-184: a click on one of the two switch buttons.
OnSwitch ==
  /\ ~closed
  /\ \E cam_idx \in {1, 2} :
       /\ IF cam_idx = 1 THEN self.btn_cam1 ELSE self.btn_cam2
       /\ self' = switch_to(self, cam_idx)
       /\ ev' = Event("switch", cam_idx, FALSE, "unused", "", NoMsg, self.active_cam, FALSE)
  /\ UNCHANGED <<closed, file>>

\* Lines 562-564: the user picks an item of a dropdown's model.
OnSelect ==
  /\ ~closed
  /\ \E d \in self.devs :
       \/ self' = [self EXCEPT !.cmb_cam1 = d]
       \/ self' = [self EXCEPT !.cmb_cam2 = d]
       \/ self' = [self EXCEPT !.cmb_out = d]
  /\ ev' = PlainEvent("input")
  /\ UNCHANGED <<closed, file>>

\* Line 565: the user toggles "Show preview".
OnTogglePreview ==
  /\ ~closed
  /\ self' = [self EXCEPT !.chk_preview = ~@]
  /\ ev' = PlainEvent("input")
  /\ UNCHANGED <<closed, file>>

\* Lines 540-544 and 573: the settings dialog opens, or Refresh is clicked.
OnRefresh ==
  /\ ~closed
  /\ \E devs \in Enumerations : self' = on_refresh(self, devs)
  /\ ev' = PlainEvent("refresh")
  /\ UNCHANGED <<closed, file>>

Next ==
  \/ OnStart
  \/ OnStop
  \/ OnClose
  \/ OnSwitch
  \/ OnSelect
  \/ OnTogglePreview
  \/ OnRefresh

Spec == Init /\ [][Next]_vars

\* The validator over its whole input domain: every triple of selections,
\* each possibly unset, with the handlers that do not change the selection.
InitValidate ==
  /\ \E a \in Devices \cup {NoSel}, b \in Devices \cup {NoSel}, o \in Devices \cup {NoSel} :
       self = [on_refresh(NewWindow, Devices) EXCEPT
                 !.cmb_cam1 = a, !.cmb_cam2 = b, !.cmb_out = o]
  /\ closed = FALSE
  /\ ev = PlainEvent("init")
  /\ file = AbsentFile

NextValidate ==
  \/ OnStart
  \/ OnStop
  \/ OnClose
  \/ OnSwitch

SpecValidate == InitValidate /\ [][NextValidate]_vars

\* Lines 489-499: switch_to called as a method, whatever the buttons allow
\* (the buttons call it only while they are sensitive, lines 183-184).
CallSwitchTo ==
  /\ ~closed
  /\ \E cam_idx \in {1, 2} :
       /\ self' = switch_to(self, cam_idx)
       /\ ev' = Event("call_switch", cam_idx, FALSE, "unused", "", NoMsg, 0, FALSE)
  /\ UNCHANGED <<closed, file>>

\* Lines 252-258: on_stop called as a method, whatever the Stop button
\* allows (line 182).
CallStop ==
  /\ ~closed
  /\ self' = on_stop(self)
  /\ ev' = [PlainEvent("stop") EXCEPT !.released = teardown_state(self)]
  /\ UNCHANGED <<closed, file>>

\* The session's life with direct calls of switch_to and on_stop next to
\* the buttons' calls.
NextCall ==
  \/ OnStart
  \/ OnStop
  \/ OnClose
  \/ OnSelect
  \/ CallSwitchTo
  \/ CallStop

SpecCall == Init /\ [][NextCall]_vars

\* The framework calls that end a build before (the selector) and after
\* (v4l2sink) the preview sink is made.
ProbeFaults == {"none", "isel", "outsink"}

\* Lines 213-250 with every combination of installed preview sinks: a click
\* on Start with a valid, writable selection; the event also records the
\* sinks installed and the failing call.
OnStartProbe ==
  /\ ~closed
  /\ self.btn_start
  /\ Validate(self.cmb_cam1, self.cmb_cam2, self.cmb_out, TRUE) = ""
  /\ \E avail \in SUBSET PreviewSinkSet, fault \in ProbeFaults :
       /\ self' = on_start(self, TRUE, avail, fault).self
       /\ ev' = [avail |-> avail, fault |-> fault] @@
                 [Event("start", 0, TRUE, Cause(self, avail, fault),
                        on_start(self, TRUE, avail, fault).out,
                        on_start(self, TRUE, avail, fault).msg, 0, FALSE)
                    EXCEPT !.released = on_start(self, TRUE, avail, fault).released]
  /\ UNCHANGED <<closed, file>>

NextProbe ==
  \/ OnStartProbe
  \/ OnStop
  \/ OnClose
  \/ OnSelect
  \/ OnTogglePreview

SpecProbe == Init /\ [][NextProbe]_vars

\* The flags of a settings file: both written by on_save_defaults, or
\* both keys missing.
FileFlags ==
  ({"true", "false"} \X {"true", "false"}) \cup {<<"missing", "missing">>}

\* The settings files an earlier session can have left: none, a damaged
\* one, or an object with any devices and flags.
InitFiles ==
  {AbsentFile, CorruptFile} \cup
  {SettingsFile("json", c[1], c[2], c[3], fl[1], fl[2]) :
     c \in ((SavedDevices \X SavedDevices \X SavedDevices)
              \cup {<<NoSel, NoSel, NoSel>>}),
     fl \in FileFlags}

\* The file f names a device that devs does not have.
Stale(f, devs) ==
  /\ f.kind = "json"
  /\ \E d \in {f.cam1, f.cam2, f.out} : d # NoSel /\ d \notin devs

\* The event of a load_defaults that ended as r: whether a file with a
\* stale device was applied, and whether the load follows a successful
\* save at once.
LoadEvent(op, r, stale, roundtrip) ==
  [stale |-> stale /\ r.out = "ok", roundtrip |-> roundtrip] @@
  [PlainEvent(op) EXCEPT !.out = r.out, !.msg = r.msg]

\* Lines 56-189 with a settings file: the window after __init__.
InitSettings ==
  /\ file \in InitFiles
  /\ closed = FALSE
  /\ \E devs \in Enumerations, io \in {"ok", "read_fails"} :
       /\ self = load_defaults(NewWindow, file, devs, TRUE, io).self
       /\ ev = LoadEvent("init", load_defaults(NewWindow, file, devs, TRUE, io),
                         Stale(file, devs), FALSE)

\* Line 575: a click on Save Defaults.
OnSave ==
  /\ ~closed
  /\ \E io \in {"ok", "open_fails", "write_fails"} :
       /\ self' = on_save_defaults(self, file, io).self
       /\ file' = on_save_defaults(self, file, io).file
       /\ ev' = [PlainEvent("save") EXCEPT
                   !.out = on_save_defaults(self, file, io).out,
                   !.msg = on_save_defaults(self, file, io).msg]
  /\ UNCHANGED closed

\* Line 577: a click on Clear Defaults.
OnClear ==
  /\ ~closed
  /\ \E io \in {"ok", "unlink_fails"} :
       /\ self' = on_clear_defaults(self, file, io).self
       /\ file' = on_clear_defaults(self, file, io).file
       /\ ev' = [PlainEvent("clear") EXCEPT
                   !.out = on_clear_defaults(self, file, io).out,
                   !.msg = on_clear_defaults(self, file, io).msg]
  /\ UNCHANGED closed

\* Lines 315-332: load_defaults called as a method on the open window.
CallLoad ==
  /\ ~closed
  /\ \E devs \in Enumerations, autoload \in BOOLEAN, io \in {"ok", "read_fails"} :
       /\ self' = load_defaults(self, file, devs, autoload, io).self
       /\ ev' = LoadEvent("load", load_defaults(self, file, devs, autoload, io),
                          Stale(file, devs), ev.op = "save" /\ ev.out = "ok")
  /\ UNCHANGED <<closed, file>>

\* Lines 599-602: the application is started again after its window was
\* closed; the new window loads the file the old one left.
Restart ==
  /\ closed
  /\ closed' = FALSE
  /\ \E devs \in Enumerations, io \in {"ok", "read_fails"} :
       /\ self' = load_defaults(NewWindow, file, devs, TRUE, io).self
       /\ ev' = LoadEvent("init", load_defaults(NewWindow, file, devs, TRUE, io),
                          Stale(file, devs), FALSE)
  /\ UNCHANGED file

\* Lines 213-250 when the output is writable and no framework call fails;
\* the event also records what the start follows: the load of a file
\* with a stale device ("stale"), a settings operation that failed
\* ("iofail"), or something else.
OnStartClean ==
  /\ ~closed
  /\ self.btn_start
  /\ self' = on_start(self, TRUE, PreviewSinkSet, "none").self
  /\ ev' = [after |-> IF ev.op \in {"init", "load"} /\ ev.stale THEN "stale"
                      ELSE IF ev.op \in {"init", "load", "save", "clear"}
                              /\ ev.out = "fail" THEN "iofail"
                      ELSE "other"] @@
            [Event("start", 0, TRUE, "none",
                   on_start(self, TRUE, PreviewSinkSet, "none").out,
                   on_start(self, TRUE, PreviewSinkSet, "none").msg, 0, FALSE)
               EXCEPT !.released = on_start(self, TRUE, PreviewSinkSet, "none").released]
  /\ UNCHANGED <<closed, file>>

NextSettings ==
  \/ OnSave
  \/ OnClear
  \/ CallLoad
  \/ Restart
  \/ OnRefresh
  \/ OnStartClean
  \/ OnStop
  \/ OnSwitch
  \/ OnClose

SpecSettings == InitSettings /\ [][NextSettings]_vars

\* --------------------------------------------------------------- notions
\* SessionState is Running when a pipeline exists and plays.
SessionRunning == self.pipeline # None /\ self.pipeline[1].state = "PLAYING"

\* Every link of the fixed topology is made, the preview's when it has one.
FullyLinked(p) ==
  p.links = InputLinks \cup OutputLinks \cup (IF p.preview THEN PreviewLinks ELSE {})

NoGraphReferences ==
  /\ self.pipeline = None
  /\ self.input_selector = None
  /\ self.pad_cam1 = NoneS
  /\ self.pad_cam2 = NoneS

StartedEvent == ev.op = "start" /\ ev.out = "Started"

\* ---------------------------------------------------------------- claims
Rule1Fails == self.cmb_cam1 = NoSel \/ self.cmb_cam2 = NoSel \/ self.cmb_out = NoSel

Rule2Fails == self.cmb_out = self.cmb_cam1 \/ self.cmb_out = self.cmb_cam2

Rule3Fails == self.cmb_cam1 = self.cmb_cam2

Rule4Fails == ~ev.writable

\* C1: after every on_start the message reported is that of the first
\* failing rule in the order IncompleteSelection, OutputCollidesWithInput,
\* DuplicateInputs, OutputNotWritable, and build_pipeline was reached
\* exactly when all four rules pass; out = camA = camB reports
\* OutputCollidesWithInput.  (on_start leaves the selection as it was.)
C1_ValidationPrecedence ==
  ev.op = "start" =>
    /\ (ev.msg = MsgIncomplete) <=> Rule1Fails
    /\ (ev.msg = MsgCollision) <=> (~Rule1Fails /\ Rule2Fails)
    /\ (ev.msg = MsgDuplicate) <=> (~Rule1Fails /\ ~Rule2Fails /\ Rule3Fails)
    /\ (ev.msg = MsgNotWritable) <=>
         (~Rule1Fails /\ ~Rule2Fails /\ ~Rule3Fails /\ Rule4Fails)
    /\ (ev.out # "Invalid") <=>
         (~Rule1Fails /\ ~Rule2Fails /\ ~Rule3Fails /\ ~Rule4Fails)
    /\ (ev.out = "Invalid") <=> (ev.msg \in ValidationMsgs)
    /\ (self.cmb_cam1 # NoSel /\ self.cmb_out = self.cmb_cam1
          /\ self.cmb_cam1 = self.cmb_cam2) => ev.msg = MsgCollision

\* C1 witness: a start with out = camA = camB, reported as a collision.
C1_Witness ==
  /\ ev.op = "start"
  /\ self.cmb_cam1 # NoSel
  /\ self.cmb_out = self.cmb_cam1
  /\ self.cmb_cam1 = self.cmb_cam2
  /\ ev.msg = MsgCollision

\* C2 as stated: after an on_start that failed validation the pipeline,
\* selector and pad references are absent, the session is Stopped, and
\* Start is enabled with Stop and both switch buttons disabled.
C2_InvalidStartLeavesNothing ==
  (ev.op = "start" /\ ev.out = "Invalid") =>
    /\ NoGraphReferences
    /\ ~SessionRunning
    /\ self.btn_start /\ ~self.btn_stop /\ ~self.btn_cam1 /\ ~self.btn_cam2

\* C3 as stated: after an on_start whose build returned a failure the
\* session is Stopped and the controller holds no graph object of the
\* failed attempt: no pipeline, selector or pad, and (when the attempt got
\* past the selector, so that line 343 ran) no preview sink.
C3_FailedBuildRolledBack ==
  (ev.op = "start" /\ ev.out = "BuildFailed") =>
    /\ ~SessionRunning
    /\ NoGraphReferences
    /\ ev.msg # MsgNoSelector => self.preview_sink = NoneS

\* C4 as stated: between UI events a pipeline that exists is fully linked,
\* with both branches attached to selector pads.
C4_FullyLinkedOrAbsent ==
  self.pipeline # None =>
    /\ FullyLinked(self.pipeline[1])
    /\ self.input_selector # None
    /\ self.pad_cam1 # NoneS
    /\ self.pad_cam2 # NoneS

\* C5: after a start that failed in the build or in the PLAYING transition
\* the Start button is still enabled, and a retry in which validation
\* passes and no framework call fails ends Running with a complete graph.
C5_RetrySucceeds ==
  /\ (ev.op = "start" /\ ev.out \in FailedOuts) => (self.btn_start /\ ~closed)
  /\ (ev.op = "start" /\ ev.retry /\ ev.cause = "none") =>
       /\ ev.out = "Started"
       /\ SessionRunning
       /\ FullyLinked(self.pipeline[1])
       /\ self.pad_cam1 # NoneS /\ self.pad_cam2 # NoneS

\* C5 witness: a retry right after a failed start that is now Running.
C5_Witness == ev.op = "start" /\ ev.retry /\ ev.cause = "none" /\ SessionRunning

\* C6 as stated: when an element factory gives no element, build_pipeline
\* returns a failure (the capture message for v4l2src), and on_start tears
\* the attempt down and reports a status message.
C6_FactoryFailureReturned ==
  (ev.op = "start" /\ ev.cause \in {"capture", "factory"}) =>
    /\ ev.out = "BuildFailed"
    /\ ev.msg \in BuildMsgs
    /\ ev.cause = "capture" => ev.msg = MsgNoSrc
    /\ self.pipeline = None

\* C7 as stated: whenever the Start handler can run, no pipeline exists.
C7_StartOnlyWithoutPipeline ==
  (~closed /\ self.btn_start) => self.pipeline = None

\* C8: after every successful start active_cam is 1 and the selector's
\* active pad is pad_cam1.
C8_StartSelectsBranchA ==
  StartedEvent =>
    /\ SessionRunning
    /\ self.active_cam = 1
    /\ self.pad_cam1 # NoneS
    /\ self.input_selector # None
    /\ self.input_selector[1].active = self.pad_cam1

\* C8 witness: a successful start that found active_cam = 2 from the
\* session before.
C8_Witness == StartedEvent /\ ev.pre = 2 /\ self.active_cam = 1

PadOf(cam_idx) == IF cam_idx = 1 THEN self.pad_cam1 ELSE self.pad_cam2

C10_SwitchIdempotent ==
  [][ (ev'.op = "switch" /\ SessionRunning /\ ~closed) =>
        /\ self'.active_cam = ev'.arg
        /\ self'.input_selector[1].active =
              (IF ev'.arg = 1 THEN self.pad_cam1 ELSE self.pad_cam2)
        /\ self'.pipeline = self.pipeline
        /\ self'.pad_cam1 = self.pad_cam1 /\ self'.pad_cam2 = self.pad_cam2
        /\ ((ev.op = "switch" /\ ev.arg = ev'.arg) \/ self.active_cam = ev'.arg)
             => self' = self ]_vars

\* C10 witness: Running right after a switch to branch B made while branch
\* B was active.
C10_Witness ==
  ev.op = "switch" /\ ev.arg = 2 /\ ev.pre = 2 /\ SessionRunning /\ self.active_cam = 2

\* A step that is a call of switch_to, from a button or direct.
SwitchStep == ev'.op \in {"switch", "call_switch"} /\ ~closed

\* C11 as stated: switch_to called with no running graph changes nothing in
\* the window; called with the target branch's selector pad absent it
\* leaves active_cam, the selector and the pipeline unchanged.
C11_FailedSwitchIsNoOp ==
  [][ SwitchStep =>
        /\ ~SessionRunning => self' = self
        /\ (IF ev'.arg = 1 THEN self.pad_cam1 ELSE self.pad_cam2) = NoneS =>
             /\ self'.active_cam = self.active_cam
             /\ self'.input_selector = self.input_selector
             /\ self'.pipeline = self.pipeline ]_vars

\* The cam status after a switch to cam_idx that went through.
SwitchedStatus(cam_idx) ==
  [self.cam_status EXCEPT ![IF cam_idx = 1 THEN 1 ELSE 2] = "ok"]

\* C12: a switch_to that finds pipeline, selector and target pad leaves the
\* pipeline (reference, PLAYING state, links), both pads, the session state
\* and every control as they were; it changes only the selector's active
\* pad, active_cam and the status indicator of the target camera.
C12_SwitchFrame ==
  [][ (ev'.op = "switch" /\ ~closed /\ SessionRunning
         /\ (IF ev'.arg = 1 THEN self.pad_cam1 ELSE self.pad_cam2) # NoneS) =>
        /\ self'.pipeline = self.pipeline
        /\ self'.pipeline[1].state = "PLAYING"
        /\ self' = [self EXCEPT
                      !.active_cam = ev'.arg,
                      !.input_selector =
                         Some([self.input_selector[1] EXCEPT
                                 !.active = IF ev'.arg = 1 THEN self.pad_cam1
                                                           ELSE self.pad_cam2]),
                      !.cam_status = SwitchedStatus(ev'.arg)] ]_vars

\* C12 witness: Running after a switch from branch A to branch B.
C12_Witness ==
  /\ ev.op = "switch" /\ ev.arg = 2 /\ ev.pre = 1
  /\ SessionRunning
  /\ self.active_cam = 2
  /\ self.input_selector[1].active = self.pad_cam2

\* A step that is on_stop or on_close.
StopStep == ev'.op \in {"stop", "close"}

\* What every on_stop and on_close does, whatever the state it starts in:
\* the pipeline, if there is one, is set to NULL and dropped with the
\* selector and the pads, and on_stop sets the four buttons.
StopEffect ==
  /\ ~SessionRunning'
  /\ NoGraphReferences'
  /\ self.pipeline # None => ev'.released = "NULL"
  /\ ev'.op = "stop" =>
       (self'.btn_start /\ ~self'.btn_stop /\ ~self'.btn_cam1 /\ ~self'.btn_cam2)

\* C13 as stated: StopEffect, and stopping a session that is not Running
\* changes nothing.
C13_StopUnconditional ==
  [][ StopStep => (StopEffect /\ (~SessionRunning => self' = self)) ]_vars

\* C13 amended: StopEffect, and stopping a session that is not Running
\* changes nothing but the two camera status indicators, which become
\* idle, and the graph references an earlier Start may have left, which
\* are cleared.
C13_StopClearsAndResetsStatus ==
  [][ StopStep =>
        /\ StopEffect
        /\ ~SessionRunning =>
             self' = [self EXCEPT !.cam_status = <<"idle", "idle">>,
                                  !.pipeline = None, !.input_selector = None,
                                  !.pad_cam1 = NoneS, !.pad_cam2 = NoneS] ]_vars

\* C13 witness: on_stop has run on a session that was already stopped.
C13_Witness ==
  /\ ev.op = "stop" /\ ev.released = Kept
  /\ ~SessionRunning
  /\ self.btn_start /\ ~self.btn_stop

\* C14: after an on_start whose build succeeded and whose set_state(PLAYING)
\* returned FAILURE the pipeline was set to NULL and dropped with the
\* selector and the pads, the session is Stopped, Start is enabled, Stop
\* and both switch buttons are disabled and a non-empty message is shown;
\* and a session is Running after an on_start only if validation, build
\* and the PLAYING transition all succeeded.
C14_PlayingFailureRolledBack ==
  /\ (ev.op = "start" /\ ev.cause = "playing") =>
       /\ ev.out = "PlayingFailed"
       /\ ev.released = "NULL"
       /\ NoGraphReferences
       /\ ~SessionRunning
       /\ self.btn_start /\ ~self.btn_stop /\ ~self.btn_cam1 /\ ~self.btn_cam2
       /\ ev.msg \notin {"", NoMsg}
  /\ (ev.op = "start" /\ SessionRunning) =>
       /\ ev.out = "Started"
       /\ ev.cause = "none"
       /\ ev.writable
       /\ ~Rule1Fails /\ ~Rule2Fails /\ ~Rule3Fails
  /\ SessionRunning => ev.op \in {"start", "switch", "call_switch", "input", "refresh"}

\* C14 witness: a start whose PLAYING transition failed.
C14_Witness == ev.op = "start" /\ ev.cause = "playing" /\ ev.out = "PlayingFailed"

\* The sink the fallback order gtk4paintablesink, glimagesink,
\* autovideosink picks among the installed ones.
PreferredSink(avail) ==
  IF "gtk4paintablesink" \in avail THEN "gtk4paintablesink"
  ELSE IF "glimagesink" \in avail THEN "glimagesink"
  ELSE "autovideosink"

\* C15: after an on_start whose build got its selector, with the preview
\* enabled: for every set of installed sinks the first installed one in
\* the order gtk4paintablesink, glimagesink, autovideosink is the preview
\* sink, and the build fails with NoPreviewSinkAvailable exactly when none
\* is installed; with the preview disabled: no preview sink is made,
\* the message is never NoPreviewSinkAvailable, and the start succeeds
\* whatever sinks are installed.
C15_PreviewSinkFallback ==
  (ev.op = "start" /\ ev.fault # "isel") =>
    /\ self.chk_preview =>
         /\ (ev.msg = MsgNoPreviewSink) <=> (ev.avail = {})
         /\ ev.avail = {} => (ev.out = "BuildFailed" /\ self.preview_sink = NoneS)
         /\ ev.avail # {} => self.preview_sink = PreferredSink(ev.avail)
         /\ (ev.avail # {} /\ ev.fault = "none") =>
              (ev.out = "Started" /\ self.pipeline[1].preview)
    /\ ~self.chk_preview =>
         /\ self.preview_sink = NoneS
         /\ ev.msg # MsgNoPreviewSink
         /\ ev.fault = "none" => (ev.out = "Started" /\ ~self.pipeline[1].preview)

\* C15 witness: gtk4paintablesink is not installed, the two others are,
\* and the preview runs on glimagesink.
C15_Witness ==
  /\ ev.op = "start" /\ ev.out = "Started"
  /\ self.chk_preview
  /\ ev.avail = {"glimagesink", "autovideosink"}
  /\ self.preview_sink = "glimagesink"

\* C19: after every on_start whose build succeeded and plays, and in every
\* Running state, camA's branch holds the selector's first requested pad
\* (sink_0, pad_cam1), camB's branch the second (sink_1, pad_cam2), the
\* selector has exactly these two pads and they are distinct.
C19_PadsInDeclarationOrder ==
  (StartedEvent \/ SessionRunning) =>
    /\ self.pad_cam1 = SinkPad(0)
    /\ self.pad_cam2 = SinkPad(1)
    /\ self.pad_cam1 # self.pad_cam2
    /\ self.input_selector[1].npads = 2
    /\ {"pad_cam1", "pad_cam2"} \subseteq self.pipeline[1].links

\* C19 witness: a successful start with the preview enabled.
C19_Witness ==
  /\ StartedEvent
  /\ self.chk_preview
  /\ self.pad_cam1 = "sink_0"
  /\ self.pad_cam2 = "sink_1"

\* The three selections and the two flags the window shows.
Controls(s) == <<s.cmb_cam1, s.cmb_cam2, s.cmb_out, s.chk_preview, s.chk_autoload>>

\* Every device the window s selects is in the enumeration devs (an unset
\* selection: there is still no device at all).
StillEnumerated(s, devs) ==
  \A d \in {s.cmb_cam1, s.cmb_cam2, s.cmb_out} :
    d \in devs \/ (d = NoSel /\ devs = {})

C17_SettingsOutsideLifecycle ==
  [][ /\ ev'.op \in {"save", "clear", "load", "refresh"} =>
           /\ self'.pipeline = self.pipeline
           /\ self'.input_selector = self.input_selector
           /\ self'.pad_cam1 = self.pad_cam1 /\ self'.pad_cam2 = self.pad_cam2
           /\ self'.active_cam = self.active_cam
           /\ SessionRunning' <=> SessionRunning
           /\ self'.btn_start = self.btn_start /\ self'.btn_stop = self.btn_stop
           /\ self'.btn_cam1 = self.btn_cam1 /\ self'.btn_cam2 = self.btn_cam2
      /\ (/\ ev'.op = "start"
          /\ ev'.after = "iofail"
          /\ Validate(self.cmb_cam1, self.cmb_cam2, self.cmb_out, TRUE) = "")
           => (ev'.out = "Started" /\ SessionRunning') ]_vars

\* C17 witness: Running after a start that followed a failed settings
\* operation.
C17_Witness == ev.op = "start" /\ ev.after = "iofail" /\ SessionRunning

\* C18 as stated: a start that follows, with no selection in between, the
\* load of a settings file naming a device that is not enumerated fails
\* validation.
C18_StaleDeviceFailsValidation ==
  (ev.op = "start" /\ ev.after = "stale") => ev.out = "Invalid"

\* C20 as stated: in the window __init__ leaves after reading a settings
\* object, the saved selections and preview flag are in the controls when
\* the saved autoload flag is true, and the controls are those of a window
\* without a settings file when the flag is false or missing.
C20_AutoloadGuardsStartup ==
  (ev.op = "init" /\ ev.out = "ok") =>
    /\ file.autoload = "true" =>
         /\ file.cam1 \in self.devs => self.cmb_cam1 = file.cam1
         /\ file.cam2 \in self.devs => self.cmb_cam2 = file.cam2
         /\ file.out \in self.devs => self.cmb_out = file.out
         /\ self.chk_preview = (file.preview = "true")
    /\ file.autoload # "true" =>
         Controls(self) = Controls(on_refresh(NewWindow, self.devs))

\* C21 as stated: between UI events, while the window is open, Stop and
\* both switch buttons are enabled exactly when a pipeline exists and is
\* running, and Start is enabled exactly when no pipeline exists.
C21_ButtonsMatchSession ==
  ~closed =>
    /\ self.btn_stop <=> SessionRunning
    /\ self.btn_cam1 <=> SessionRunning
    /\ self.btn_cam2 <=> SessionRunning
    /\ self.btn_start <=> (self.pipeline = None)

\* C22: in every Running state active_cam is 1 exactly when the selector's
\* active pad is pad_cam1 and 2 exactly when it is pad_cam2.
C22_ActiveCamAgreesWithSelector ==
  SessionRunning =>
    /\ (self.active_cam = 1) <=> (self.input_selector[1].active = self.pad_cam1)
    /\ (self.active_cam = 2) <=> (self.input_selector[1].active = self.pad_cam2)

\* C22 witness: Running on branch A again after a switch back from
\* branch B.
C22_Witness ==
  /\ ev.op = "switch" /\ ev.arg = 1 /\ ev.pre = 2
  /\ SessionRunning
  /\ self.active_cam = 1
  /\ self.input_selector[1].active = self.pad_cam1

====
